---- MODULE Spec2Model ----
(***************************************************************************)
(* The command layer of helix-view (src/helix-view/src/commands.rs) as a   *)
(* state machine.  A command is a function over the editable view; here    *)
(* each command is an operator from a view record to a view record, and    *)
(* one action per command applies it.  The types the commands are built    *)
(* from (Rope, Selection, ChangeSet, Transaction, History, Document) live  *)
(* in helix-core and document.rs and are modelled from their contracts.    *)
(***************************************************************************)
EXTENDS Integers, Sequences, FiniteSets, TLC

VARIABLES view,      \* the View: document state, mode, history, viewport
          register,  \* the default register '"': <<>> is None, else the values
          cmd,       \* the command dispatched last ("move" for a movement)
          session,   \* the Insert session under way, or the last one left
          trip,      \* the undo/redo round trip being measured, if any
          undone,    \* an undo or redo took effect and the text has not changed since
          budget     \* commands the dispatch loop will still read

vars == <<view, register, cmd, session, trip, undone, budget>>

-----------------------------------------------------------------------------
(* Bounds of the model *)

MaxSteps == 3
MaxLen == 7
MaxCount == 1
MaxIndentLevel == 1

(* Program constants *)

TAB_WIDTH == 4
PADDING == 5
Height == 3

-----------------------------------------------------------------------------
(* usize arithmetic *)

Min(a, b) == IF a <= b THEN a ELSE b
Max(a, b) == IF a >= b THEN a ELSE b
saturating_sub(a, b) == IF a >= b THEN a - b ELSE 0

-----------------------------------------------------------------------------
(* Rope: the text is a sequence of one-character strings; positions are    *)
(* 0-based character offsets, so the character at offset p is t[p + 1].    *)

RECURSIVE CountNL(_, _)
CountNL(t, n) ==
    IF n = 0 THEN 0
    ELSE CountNL(t, n - 1) + (IF t[n] = "\n" THEN 1 ELSE 0)

len_chars(t) == Len(t)

len_lines(t) == CountNL(t, Len(t)) + 1

\* the line holding offset c (c = len is the last line)
char_to_line(t, c) == CountNL(t, Min(c, Len(t)))

\* offset of the first character of line l; one past the last line is len
line_to_char(t, l) ==
    IF l = 0 THEN 0
    ELSE IF l >= len_lines(t) THEN Len(t)
    ELSE CHOOSE i \in 1..Len(t) : t[i] = "\n" /\ CountNL(t, i) = l

\* the characters of line l, its line break included
line(t, l) == SubSeq(t, line_to_char(t, l) + 1, line_to_char(t, l + 1))

-----------------------------------------------------------------------------
(* graphemes: every character of the model's alphabet is one cluster *)

nth_next_grapheme_boundary(t, pos, n) == Min(pos + n, Len(t))
nth_prev_grapheme_boundary(t, pos, n) == saturating_sub(pos, n)
next_grapheme_boundary(t, pos) == nth_next_grapheme_boundary(t, pos, 1)
prev_grapheme_boundary(t, pos) == nth_prev_grapheme_boundary(t, pos, 1)

-----------------------------------------------------------------------------
(* Range and Selection *)

Range(a, h) == [anchor |-> a, head |-> h]
from(r) == Min(r.anchor, r.head)
to(r) == Max(r.anchor, r.head)

\* r starts at or after p.from: does it run into p?
overlaps(r, p) ==
    IF r.anchor = r.head \/ p.anchor = p.head
    THEN from(r) <= to(p)
    ELSE from(r) < to(p)

\* stable insertion of r into a sequence sorted by from()
RECURSIVE InsertSorted(_, _)
InsertSorted(rs, r) ==
    IF rs = <<>> THEN <<r>>
    ELSE IF from(r) < from(Head(rs)) THEN <<r>> \o rs
    ELSE <<Head(rs)>> \o InsertSorted(Tail(rs), r)

RECURSIVE SortRanges(_)
SortRanges(rs) ==
    IF rs = <<>> THEN <<>>
    ELSE InsertSorted(SortRanges(SubSeq(rs, 1, Len(rs) - 1)), rs[Len(rs)])

\* merge each range into its predecessor when they overlap
RECURSIVE MergeRanges(_, _)
MergeRanges(acc, rs) ==
    IF rs = <<>> THEN acc
    ELSE LET r == Head(rs) IN
         IF acc # <<>> /\ overlaps(r, acc[Len(acc)])
         THEN LET p == acc[Len(acc)]
                  f == from(p)
                  t == Max(to(r), to(p))
                  m == IF r.anchor > r.head THEN Range(t, f) ELSE Range(f, t)
              IN  MergeRanges(SubSeq(acc, 1, Len(acc) - 1) \o <<m>>, Tail(rs))
         ELSE MergeRanges(acc \o <<r>>, Tail(rs))

NoSelection == [ranges |-> <<>>, primary |-> 0]

\* Selection::new: sort, merge, and keep the primary on the range that now
\* holds the original primary's head
Selection_new(rs, primary_index) ==
    LET ns == MergeRanges(<<>>, SortRanges(rs))
        h  == rs[primary_index + 1].head
        holding == {i \in 1..Len(ns) : from(ns[i]) <= h /\ h <= to(ns[i])}
    IN  [ranges  |-> ns,
         primary |-> IF holding = {} THEN 0
                     ELSE (CHOOSE i \in holding : \A j \in holding : i <= j) - 1]

Selection_point(pos) == [ranges |-> <<Range(pos, pos)>>, primary |-> 0]
Selection_single(a, h) == [ranges |-> <<Range(a, h)>>, primary |-> 0]

primary(sel) == sel.ranges[sel.primary + 1]
cursor(sel) == primary(sel).head

\* Selection::transform with the function given as its table of results
transform(sel, F(_)) ==
    Selection_new([i \in 1..Len(sel.ranges) |-> F(sel.ranges[i])], sel.primary)

-----------------------------------------------------------------------------
(* ChangeSet: operations over the prior text, applied left to right.       *)
(* Retain(n) and Delete(n) carry n, Insert(s) carries the inserted text.   *)

Retain(n) == [k |-> "R", n |-> n, s |-> <<>>]
Delete(n) == [k |-> "D", n |-> n, s |-> <<>>]
Insert(s) == [k |-> "I", n |-> Len(s), s |-> s]

\* append an operation, dropping empty ones and joining equal neighbours
Push(ops, o) ==
    IF o.n = 0 THEN ops
    ELSE IF ops # <<>> /\ ops[Len(ops)].k = o.k
    THEN LET l == ops[Len(ops)] IN
         SubSeq(ops, 1, Len(ops) - 1)
            \o <<[k |-> o.k, n |-> l.n + o.n, s |-> l.s \o o.s]>>
    ELSE ops \o <<o>>

\* ChangeSet::new: the identity over a text
ChangeSet_new(t) == [len |-> Len(t), ops |-> Push(<<>>, Retain(Len(t)))]

\* ChangeSet::is_empty: the changeset has no effect
is_empty(cs) == \A i \in 1..Len(cs.ops) : cs.ops[i].k = "R"

\* number of characters of the prior text the operations consume
RECURSIVE ConsumedLen(_)
ConsumedLen(ops) ==
    IF ops = <<>> THEN 0
    ELSE (IF Head(ops).k = "I" THEN 0 ELSE Head(ops).n) + ConsumedLen(Tail(ops))

\* number of characters the operations produce
RECURSIVE ProducedLen(_)
ProducedLen(ops) ==
    IF ops = <<>> THEN 0
    ELSE (IF Head(ops).k = "D" THEN 0 ELSE Head(ops).n) + ProducedLen(Tail(ops))

\* the text the operations make of t, read from offset pos on
RECURSIVE ApplyOps(_, _, _)
ApplyOps(ops, t, pos) ==
    IF ops = <<>> THEN <<>>
    ELSE LET o == Head(ops) IN
         CASE o.k = "R" -> SubSeq(t, pos + 1, pos + o.n) \o ApplyOps(Tail(ops), t, pos + o.n)
           [] o.k = "D" -> ApplyOps(Tail(ops), t, pos + o.n)
           [] o.k = "I" -> o.s \o ApplyOps(Tail(ops), t, pos)

\* ChangeSet::apply succeeds only on a text of the length it was built for
applies_to(cs, t) == cs.len = Len(t) /\ ConsumedLen(cs.ops) = Len(t)

apply_changes(cs, t) == ApplyOps(cs.ops, t, 0)

\* ChangeSet::invert: Insert and Delete swap, deleted text read from the original
RECURSIVE InvertOps(_, _, _)
InvertOps(ops, original, pos) ==
    IF ops = <<>> THEN <<>>
    ELSE LET o == Head(ops) IN
         CASE o.k = "R" -> <<Retain(o.n)>> \o InvertOps(Tail(ops), original, pos + o.n)
           [] o.k = "D" -> <<Insert(SubSeq(original, pos + 1, pos + o.n))>>
                              \o InvertOps(Tail(ops), original, pos + o.n)
           [] o.k = "I" -> <<Delete(o.n)>> \o InvertOps(Tail(ops), original, pos)

invert(cs, original) ==
    [len |-> ProducedLen(cs.ops), ops |-> InvertOps(cs.ops, original, 0)]

\* the first n characters' worth of an operation, and what is left of it
TakeOp(o, n) == [k |-> o.k, n |-> n, s |-> IF o.k = "I" THEN SubSeq(o.s, 1, n) ELSE <<>>]
DropOp(o, n) ==
    [k |-> o.k, n |-> o.n - n, s |-> IF o.k = "I" THEN SubSeq(o.s, n + 1, o.n) ELSE <<>>]
RestOps(ops, n) ==
    IF Head(ops).n > n THEN <<DropOp(Head(ops), n)>> \o Tail(ops) ELSE Tail(ops)

\* ChangeSet::compose: one changeset equal to a followed by b
RECURSIVE ComposeOps(_, _, _)
ComposeOps(a, b, acc) ==
    IF a = <<>> /\ b = <<>> THEN acc
    ELSE IF a # <<>> /\ Head(a).k = "D" THEN ComposeOps(Tail(a), b, Push(acc, Head(a)))
    ELSE IF b # <<>> /\ Head(b).k = "I" THEN ComposeOps(a, Tail(b), Push(acc, Head(b)))
    ELSE IF a = <<>> \/ b = <<>> THEN acc
    ELSE LET x == Head(a)
             y == Head(b)
             m == Min(x.n, y.n)
             ra == RestOps(a, m)
             rb == RestOps(b, m)
         IN  CASE x.k = "R" /\ y.k = "R" -> ComposeOps(ra, rb, Push(acc, Retain(m)))
               [] x.k = "I" /\ y.k = "D" -> ComposeOps(ra, rb, acc)
               [] x.k = "I" /\ y.k = "R" -> ComposeOps(ra, rb, Push(acc, TakeOp(x, m)))
               [] x.k = "R" /\ y.k = "D" -> ComposeOps(ra, rb, Push(acc, Delete(m)))

composable(a, b) == ProducedLen(a.ops) = b.len /\ ConsumedLen(b.ops) = b.len

compose(a, b) == [len |-> a.len, ops |-> ComposeOps(a.ops, b.ops, <<>>)]

\* ChangeSet::map_pos, associating with the text after an insertion
RECURSIVE MapPos(_, _, _, _)
MapPos(ops, pos, old_pos, new_pos) ==
    IF ops = <<>> THEN new_pos
    ELSE LET o == Head(ops) IN
         CASE o.k = "R" -> IF old_pos + o.n > pos THEN new_pos + (pos - old_pos)
                           ELSE MapPos(Tail(ops), pos, old_pos + o.n, new_pos + o.n)
           [] o.k = "D" -> IF old_pos + o.n > pos THEN new_pos
                           ELSE MapPos(Tail(ops), pos, old_pos + o.n, new_pos)
           [] o.k = "I" -> MapPos(Tail(ops), pos, old_pos, new_pos + o.n)

map_pos(cs, pos) == MapPos(cs.ops, pos, 0, 0)

\* Selection::map: every anchor and head carried through the changeset
Selection_map(sel, cs) ==
    Selection_new([i \in 1..Len(sel.ranges) |->
                      Range(map_pos(cs, sel.ranges[i].anchor),
                            map_pos(cs, sel.ranges[i].head))],
                  sel.primary)

-----------------------------------------------------------------------------
(* Transaction: a changeset and, optionally, the selection to install.     *)
(* An edit is a triple (from, to, replacement); no replacement is <<>>.    *)

Edit(f, t, s) == [from |-> f, to |-> t, text |-> s]

\* what Transaction::change requires of its edit list over a text of length len
RECURSIVE SortedDisjoint(_, _)
SortedDisjoint(edits, last) ==
    \/ edits = <<>>
    \/ /\ last <= Head(edits).from
       /\ Head(edits).from <= Head(edits).to
       /\ SortedDisjoint(Tail(edits), Head(edits).to)

InBounds(edits, len) == \A i \in 1..Len(edits) : edits[i].to <= len

valid_edits(edits, len) == SortedDisjoint(edits, 0) /\ InBounds(edits, len)

\* Transaction::change: Retain fills the gaps between consecutive edits
RECURSIVE ChangeOps(_, _, _, _)
ChangeOps(edits, last, len, acc) ==
    IF edits = <<>> THEN Push(acc, Retain(len - last))
    ELSE LET e == Head(edits) IN
         ChangeOps(Tail(edits), e.to, len,
                   Push(Push(Push(acc, Retain(e.from - last)), Delete(e.to - e.from)),
                        Insert(e.text)))

Transaction_change(t, edits) ==
    [changes |-> [len |-> Len(t), ops |-> ChangeOps(edits, 0, Len(t), <<>>)],
     selection |-> NoSelection]

with_selection(tx, sel) == [tx EXCEPT !.selection = sel]

Transaction_from(cs) == [changes |-> cs, selection |-> NoSelection]


-----------------------------------------------------------------------------
(* History: a linear log of revisions and a cursor; revisions before the   *)
(* cursor are undoable, those from the cursor on are redoable.             *)

History_new == [revisions |-> <<>>, cursor |-> 0]

\* commit_revision: drop the redo tail, append the revision with its inverse
commit_revision(h, tx, original) ==
    LET revert == with_selection(Transaction_from(invert(tx.changes, original.text)),
                                 original.selection)
    IN  [revisions |-> SubSeq(h.revisions, 1, h.cursor)
                          \o <<[transaction |-> tx, revert |-> revert]>>,
         cursor    |-> h.cursor + 1]

can_undo(h) == h.cursor > 0
can_redo(h) == h.cursor < Len(h.revisions)

-----------------------------------------------------------------------------
(* Document and View.  The view record holds the document's fields and the *)
(* viewport's first_line; panicked marks a command that failed fast.       *)

State(t, sel) == [text |-> t, selection |-> sel]

View_new(t, sel) ==
    [text           |-> t,
     selection      |-> sel,
     mode           |-> "Normal",
     restore_cursor |-> FALSE,
     changes        |-> ChangeSet_new(t),
     old_state      |-> State(t, sel),
     history        |-> History_new,
     version        |-> 0,
     first_line     |-> 0,
     panicked       |-> FALSE]

panic(v) == [v EXCEPT !.panicked = TRUE]

\* run g after f unless f failed
and_then(v, G(_)) == IF v.panicked THEN v ELSE G(v)

set_selection(v, sel) == [v EXCEPT !.selection = sel]

\* Document::apply: all or nothing; the changeset joins the pending changes
Document_apply(v, tx) ==
    IF ~(applies_to(tx.changes, v.text) /\ composable(v.changes, tx.changes))
    THEN panic(v)
    ELSE [v EXCEPT !.text      = apply_changes(tx.changes, v.text),
                   !.selection = IF tx.selection = NoSelection
                                 THEN Selection_map(v.selection, tx.changes)
                                 ELSE tx.selection,
                   !.changes   = compose(v.changes, tx.changes)]

\* Transaction::change over the current state, then apply; a malformed edit
\* list is the caller's contract violation and fails fast
apply_edits(v, edits, sel) ==
    IF ~valid_edits(edits, Len(v.text)) THEN panic(v)
    ELSE Document_apply(v, with_selection(Transaction_change(v.text, edits), sel))

\* Transaction::change_by_selection's edit list: f over the ranges in order
change_by_selection(v, F(_)) == [i \in 1..Len(v.selection.ranges) |-> F(v.selection.ranges[i])]

\* View::last_line: the last line shown
last_line(v) == Min(v.first_line + saturating_sub(Height, 1), len_lines(v.text) - 1)

-----------------------------------------------------------------------------
(* Movement engine (State::move_pos, move_selection, extend_selection) *)

IsSpace(c) == c \in {" ", "\t", "\n"}

\* first offset >= pos whose character is not of the given class
RECURSIVE SkipForward(_, _, _)
SkipForward(t, pos, space) ==
    IF pos >= Len(t) \/ IsSpace(t[pos + 1]) # space THEN pos
    ELSE SkipForward(t, pos + 1, space)

\* least offset <= pos such that every character in [offset, pos) is of the class
RECURSIVE SkipBackward(_, _, _)
SkipBackward(t, pos, space) ==
    IF pos = 0 \/ IsSpace(t[pos]) # space THEN pos
    ELSE SkipBackward(t, pos - 1, space)

move_next_word_start_pos(t, pos) ==
    IF pos >= Len(t) THEN pos
    ELSE SkipForward(t, IF IsSpace(t[pos + 1]) THEN pos ELSE SkipForward(t, pos, FALSE), TRUE)

move_prev_word_start_pos(t, pos) == SkipBackward(t, SkipBackward(t, pos, TRUE), FALSE)

\* skip the character under the cursor when it already ends a word
move_next_word_end_pos(t, pos) ==
    LET at_end == /\ pos < Len(t)
                  /\ ~IsSpace(t[pos + 1])
                  /\ (pos + 1 = Len(t) \/ IsSpace(t[pos + 2]))
        start  == IF at_end THEN pos + 1 ELSE pos
    IN  saturating_sub(SkipForward(t, SkipForward(t, start, TRUE), FALSE), 1)

RECURSIVE State_move_next_word_end(_, _, _)
State_move_next_word_end(t, pos, count) ==
    IF count = 0 THEN pos
    ELSE State_move_next_word_end(t, move_next_word_end_pos(t, pos), count - 1)

\* keep the column where the new line is long enough
move_vertically(t, forward, pos, count) ==
    LET l  == char_to_line(t, pos)
        col == pos - line_to_char(t, l)
        nl == IF forward THEN Min(l + count, len_lines(t) - 1)
              ELSE saturating_sub(l, count)
        nlen == saturating_sub(Len(line(t, nl)), 2)
    IN  line_to_char(t, nl) + Min(col, nlen)

RECURSIVE move_word(_, _, _, _)
move_word(t, forward, pos, count) ==
    IF count = 0 THEN pos
    ELSE move_word(t, forward,
                   IF forward THEN move_next_word_start_pos(t, pos)
                   ELSE move_prev_word_start_pos(t, pos),
                   count - 1)

move_pos(t, pos, forward, granularity, count) ==
    CASE granularity = "Character" ->
            IF forward THEN nth_next_grapheme_boundary(t, pos, count)
            ELSE nth_prev_grapheme_boundary(t, pos, count)
      [] granularity = "Line" -> move_vertically(t, forward, pos, count)
      [] granularity = "Word" -> move_word(t, forward, pos, count)

move_selection(v, forward, granularity, count) ==
    LET F(r) == LET p == move_pos(v.text, r.head, forward, granularity, count)
                IN  Range(p, p)
    IN  transform(v.selection, F)

extend_selection(v, forward, granularity, count) ==
    LET F(r) == Range(r.anchor, move_pos(v.text, r.head, forward, granularity, count))
    IN  transform(v.selection, F)

\* the ranges left of [from, to) of one range when it is cut at every line break
RECURSIVE SplitRange(_, _, _, _)
SplitRange(t, start, pos, end) ==
    IF pos >= end THEN <<Range(start, end)>>
    ELSE IF t[pos + 1] = "\n"
    THEN <<Range(start, pos)>> \o SplitRange(t, pos + 1, pos + 1, end)
    ELSE SplitRange(t, start, pos + 1, end)

RECURSIVE Flatten(_)
Flatten(ss) == IF ss = <<>> THEN <<>> ELSE Head(ss) \o Flatten(Tail(ss))

split_on_matches(t, sel) ==
    Selection_new(Flatten([i \in 1..Len(sel.ranges) |->
                              SplitRange(t, from(sel.ranges[i]), from(sel.ranges[i]),
                                         to(sel.ranges[i]))]),
                  0)

\* Selection::fragments: the text of each range, in range order
fragments(sel, t) ==
    [i \in 1..Len(sel.ranges) |-> SubSeq(t, from(sel.ranges[i]) + 1, to(sel.ranges[i]))]

\* the members of a set of numbers in ascending order (sort, then dedup)
RECURSIVE Ascending(_)
Ascending(S) ==
    IF S = {} THEN <<>>
    ELSE LET m == CHOOSE x \in S : \A y \in S : x <= y
         IN  <<m>> \o Ascending(S \ {m})


\* " ".repeat(n)
RECURSIVE Spaces(_)
Spaces(n) == IF n = 0 THEN <<>> ELSE <<" ">> \o Spaces(n - 1)

-----------------------------------------------------------------------------
(* Commands: movement *)

move_char_left(v, count) == set_selection(v, move_selection(v, FALSE, "Character", count))
\* move_char_right flushing the pending changeset as the mode commands do
move_char_right_committing(v, count) ==
    LET w == set_selection(v, move_selection(v, TRUE, "Character", count))
        transaction == with_selection(Transaction_from(w.changes), w.selection)
    IN  IF is_empty(w.changes) THEN w
        ELSE [w EXCEPT !.changes   = ChangeSet_new(w.text),
                       !.version   = w.version + 1,
                       !.old_state = State(w.text, w.selection),
                       !.history   = commit_revision(w.history, transaction, w.old_state)]

move_char_right(v, count) == set_selection(v, move_selection(v, TRUE, "Character", count))
move_line_up(v, count) == set_selection(v, move_selection(v, FALSE, "Line", count))
move_line_down(v, count) == set_selection(v, move_selection(v, TRUE, "Line", count))

\* line numbers of the ranges' heads, sorted and deduplicated
selection_lines(v) ==
    Ascending({char_to_line(v.text, v.selection.ranges[i].head) :
                  i \in 1..Len(v.selection.ranges)})

\* move_line_end with the two subtractions left unclamped
move_line_end_unclamped(v) ==
    LET lines == selection_lines(v)
        positions == [i \in 1..Len(lines) |->
                         LET pos == line_to_char(v.text, lines[i] + 1) - 2
                         IN  Range(pos, pos)]
    IN  set_selection(v, Selection_new(positions, 0))

move_line_end(v) ==
    LET lines == selection_lines(v)
        positions == [i \in 1..Len(lines) |->
                         LET pos == saturating_sub(line_to_char(v.text, lines[i] + 1), 2)
                         IN  Range(pos, pos)]
    IN  set_selection(v, Selection_new(positions, 0))

move_line_start(v) ==
    LET lines == selection_lines(v)
        positions == [i \in 1..Len(lines) |->
                         LET pos == line_to_char(v.text, lines[i])
                         IN  Range(pos, pos)]
    IN  set_selection(v, Selection_new(positions, 0))

move_next_word_start(v, count) ==
    set_selection(v, Selection_point(move_pos(v.text, cursor(v.selection), TRUE, "Word", count)))

move_prev_word_start(v, count) ==
    set_selection(v, Selection_point(move_pos(v.text, cursor(v.selection), FALSE, "Word", count)))

move_next_word_end(v, count) ==
    set_selection(v, Selection_point(State_move_next_word_end(v.text, cursor(v.selection), count)))

move_file_start(v) == [set_selection(v, Selection_point(0)) EXCEPT !.mode = "Normal"]

move_file_end(v) ==
    LET last == line_to_char(v.text, saturating_sub(len_lines(v.text), 2))
    IN  [set_selection(v, Selection_point(last)) EXCEPT !.mode = "Normal"]

check_cursor_in_view(v) ==
    LET l == char_to_line(v.text, cursor(v.selection))
        document_end == v.first_line + saturating_sub(Height, 1)
    IN  ~(l > saturating_sub(document_end, PADDING) \/ l < v.first_line + PADDING)

page_up(v) ==
    IF v.first_line < PADDING THEN v
    ELSE LET w == [v EXCEPT !.first_line = saturating_sub(v.first_line, Height)]
         IN  IF ~check_cursor_in_view(w)
             THEN set_selection(w, Selection_point(
                      line_to_char(w.text, saturating_sub(last_line(w), PADDING))))
             ELSE w

page_down(v) ==
    LET w == [v EXCEPT !.first_line = v.first_line + Height + PADDING]
    IN  IF w.first_line < len_lines(w.text)
        THEN set_selection(w, Selection_point(line_to_char(w.text, w.first_line)))
        ELSE w

\* last_line() - PADDING is an unchecked subtraction
half_page_up(v) ==
    IF v.first_line < PADDING THEN v
    ELSE LET w == [v EXCEPT !.first_line = saturating_sub(v.first_line, Height \div 2)]
         IN  IF ~check_cursor_in_view(w)
             THEN IF last_line(w) < PADDING THEN panic(w)
                  ELSE set_selection(w, Selection_point(
                           line_to_char(w.text, last_line(w) - PADDING)))
             ELSE w

\* line_to_char panics on a line index past len_lines()
half_page_down(v) ==
    LET lines == len_lines(v.text)
        w == IF v.first_line < saturating_sub(lines, Height)
             THEN [v EXCEPT !.first_line = v.first_line + Height \div 2]
             ELSE v
    IN  IF ~check_cursor_in_view(w)
        THEN IF w.first_line > lines THEN panic(w)
             ELSE set_selection(w, Selection_point(line_to_char(w.text, w.first_line)))
        ELSE w

extend_char_left(v, count) == set_selection(v, extend_selection(v, FALSE, "Character", count))
extend_char_right(v, count) == set_selection(v, extend_selection(v, TRUE, "Character", count))
extend_line_up(v, count) == set_selection(v, extend_selection(v, FALSE, "Line", count))
extend_line_down(v, count) == set_selection(v, extend_selection(v, TRUE, "Line", count))

split_selection_on_newline(v) == set_selection(v, split_on_matches(v.text, v.selection))

select_line(v) ==
    LET pos == primary(v.selection)
        l == char_to_line(v.text, pos.head)
        start == line_to_char(v.text, l)
        end == saturating_sub(line_to_char(v.text, l + 1), 1)
    IN  set_selection(v, Selection_single(start, end))

collapse_selection(v) ==
    LET F(r) == Range(r.head, r.head)
    IN  set_selection(v, transform(v.selection, F))

flip_selections(v) ==
    LET F(r) == Range(r.head, r.anchor)
    IN  set_selection(v, transform(v.selection, F))

-----------------------------------------------------------------------------
(* Commands: history *)

\* append_changes_to_history without the old_state swap
append_changes_to_history_stale(v) ==
    IF is_empty(v.changes) THEN v
    ELSE LET transaction == with_selection(Transaction_from(v.changes), v.selection)
         IN  [v EXCEPT !.changes   = ChangeSet_new(v.text),
                       !.version   = v.version + 1,
                       !.history   = commit_revision(v.history, transaction, v.old_state)]

append_changes_to_history(v) ==
    IF is_empty(v.changes) THEN v
    ELSE LET transaction == with_selection(Transaction_from(v.changes), v.selection)
         IN  [v EXCEPT !.changes   = ChangeSet_new(v.text),
                       !.version   = v.version + 1,
                       !.old_state = State(v.text, v.selection),
                       !.history   = commit_revision(v.history, transaction, v.old_state)]

\* undo asking History for redo() instead of undo()
undo_redoing(v) ==
    IF can_redo(v.history)
    THEN Document_apply([v EXCEPT !.history.cursor = v.history.cursor + 1,
                                  !.version = v.version + 1],
                        v.history.revisions[v.history.cursor + 1].transaction)
    ELSE v

\* undo with the version bumped outside the `if let`
undo_eager(v) ==
    IF can_undo(v.history)
    THEN Document_apply([v EXCEPT !.history.cursor = v.history.cursor - 1,
                                  !.version = v.version + 1],
                        v.history.revisions[v.history.cursor].revert)
    ELSE [v EXCEPT !.version = v.version + 1]

undo(v) ==
    IF can_undo(v.history)
    THEN Document_apply([v EXCEPT !.history.cursor = v.history.cursor - 1,
                                  !.version = v.version + 1],
                        v.history.revisions[v.history.cursor].revert)
    ELSE v

redo(v) ==
    IF can_redo(v.history)
    THEN Document_apply([v EXCEPT !.history.cursor = v.history.cursor + 1,
                                  !.version = v.version + 1],
                        v.history.revisions[v.history.cursor + 1].transaction)
    ELSE v

-----------------------------------------------------------------------------
(* Commands: edits in Normal mode and mode changes *)

delete_selection_edits(v) ==
    LET F(r) == Edit(from(r), to(r) + 1, <<>>)
    IN  change_by_selection(v, F)

delete_selection(v) ==
    and_then(apply_edits(v, delete_selection_edits(v), NoSelection), append_changes_to_history)

enter_insert_mode(v) == append_changes_to_history([v EXCEPT !.mode = "Insert"])

insert_mode(v) ==
    LET w == enter_insert_mode(v)
        F(r) == Range(to(r), from(r))
    IN  set_selection(w, transform(w.selection, F))

change_selection(v) == and_then(delete_selection(v), insert_mode)

append_mode(v) ==
    LET w == [enter_insert_mode(v) EXCEPT !.restore_cursor = TRUE]
        F(r) == Range(from(r), next_grapheme_boundary(w.text, to(r)))
    IN  set_selection(w, transform(w.selection, F))

prepend_to_line(v) == move_line_start(enter_insert_mode(v))

\* append_to_line arming restore_cursor as append_mode does
append_to_line_restoring(v) ==
    move_line_end([enter_insert_mode(v) EXCEPT !.restore_cursor = TRUE])

append_to_line(v) == move_line_end(enter_insert_mode(v))

open_below_edits(v) ==
    LET lines == selection_lines(v)
    IN  [i \in 1..Len(lines) |->
            LET index == line_to_char(v.text, lines[i] + 1)
            IN  Edit(index, index, <<"\n">>)]

open_below(v) ==
    LET w == enter_insert_mode(v)
        changes == open_below_edits(w)
        selection == Selection_new([i \in 1..Len(changes) |->
                                       Range(changes[i].from, changes[i].from)], 0)
    IN  apply_edits(w, changes, selection)

normal_mode(v) ==
    LET w == append_changes_to_history([v EXCEPT !.mode = "Normal"])
        F(r) == Range(from(r), prev_grapheme_boundary(w.text, to(r)))
    IN  IF w.restore_cursor
        THEN [set_selection(w, transform(w.selection, F)) EXCEPT !.restore_cursor = FALSE]
        ELSE w

\* goto_mode writing the wrong mode
goto_mode_insert(v) == [v EXCEPT !.mode = "Insert"]

goto_mode(v) == [v EXCEPT !.mode = "Goto"]

-----------------------------------------------------------------------------
(* Commands: mod insert *)

insert_char_edits(v, c) ==
    LET F(r) == Edit(r.head, r.head, <<c>>)
    IN  change_by_selection(v, F)

\* insert_char committing its edit at once
insert_char_committing(v, c) ==
    and_then(apply_edits(v, insert_char_edits(v, c), NoSelection), append_changes_to_history)

\* insert_char leaving the selection where it was
insert_char_unmoved(v, c) == apply_edits(v, insert_char_edits(v, c), v.selection)

insert_char(v, c) == apply_edits(v, insert_char_edits(v, c), NoSelection)

insert_tab(v) == insert_char(v, "\t")

\* the indent level is the hint provider's answer
insert_newline_edits(v, indent_level) ==
    LET F(r) == Edit(r.head, r.head,
                     <<"\n">> \o Spaces(TAB_WIDTH * indent_level))
    IN  change_by_selection(v, F)

insert_newline(v, indent_level) ==
    apply_edits(v, insert_newline_edits(v, indent_level), NoSelection)

delete_char_backward_edits(v, count) ==
    LET F(r) == Edit(nth_prev_grapheme_boundary(v.text, r.head, count), r.head, <<>>)
    IN  change_by_selection(v, F)

delete_char_backward(v, count) ==
    apply_edits(v, delete_char_backward_edits(v, count), NoSelection)

delete_char_forward_edits(v, count) ==
    LET F(r) == Edit(r.head, nth_next_grapheme_boundary(v.text, r.head, count), <<>>)
    IN  change_by_selection(v, F)

delete_char_forward(v, count) ==
    apply_edits(v, delete_char_forward_edits(v, count), NoSelection)

-----------------------------------------------------------------------------
(* Commands: yank, paste, indent *)

yank(v) == fragments(v.selection, v.text)

ends_with_newline(value) == value # <<>> /\ value[Len(value)] = "\n"

\* the values in order, the last one repeated once they run out
paste_edits(v, values) ==
    LET linewise == \E i \in 1..Len(values) : ends_with_newline(values[i])
        F(i) == LET r == v.selection.ranges[i]
                    value == values[Min(i, Len(values))]
                    line_end == line_to_char(v.text, char_to_line(v.text, r.head) + 1)
                IN  IF linewise THEN Edit(line_end, line_end, value)
                    ELSE Edit(r.head + 1, r.head + 1, value)
    IN  [i \in 1..Len(v.selection.ranges) |-> F(i)]

paste(v, reg) ==
    IF reg = <<>> THEN v
    ELSE and_then(apply_edits(v, paste_edits(v, reg), NoSelection), append_changes_to_history)

\* every line a range covers, sorted and deduplicated
get_lines(v) ==
    Ascending(UNION {char_to_line(v.text, from(v.selection.ranges[i]))
                        .. char_to_line(v.text, to(v.selection.ranges[i])) :
                     i \in 1..Len(v.selection.ranges)})

indent_edits(v) ==
    LET lines == get_lines(v)
    IN  [i \in 1..Len(lines) |->
            LET pos == line_to_char(v.text, lines[i])
            IN  Edit(pos, pos, Spaces(TAB_WIDTH))]

indent(v) == and_then(apply_edits(v, indent_edits(v), NoSelection), append_changes_to_history)

\* the width of leading whitespace to drop from a line, at most one indent unit
RECURSIVE unindent_width(_, _, _)
unindent_width(chars, i, width) ==
    IF i > Len(chars) THEN width
    ELSE IF chars[i] \notin {" ", "\t"} THEN width
    ELSE LET w == IF chars[i] = " " THEN width + 1
                  ELSE ((width \div TAB_WIDTH) + 1) * TAB_WIDTH
         IN  IF w >= TAB_WIDTH THEN w ELSE unindent_width(chars, i + 1, w)

RECURSIVE unindent_changes(_, _, _)
unindent_changes(v, lines, changes) ==
    IF lines = <<>> THEN changes
    ELSE LET width == unindent_width(line(v.text, Head(lines)), 1, 0)
             start == line_to_char(v.text, Head(lines))
         IN  unindent_changes(v, Tail(lines),
                 IF width > 0 THEN changes \o <<Edit(start, start + width, <<>>)>>
                 ELSE changes)

unindent_edits(v) == unindent_changes(v, get_lines(v), <<>>)

unindent(v) == and_then(apply_edits(v, unindent_edits(v), NoSelection), append_changes_to_history)


-----------------------------------------------------------------------------
(* The dispatch layer: the documents a view is opened on, the keys of each *)
(* mode, and one action per command.                                       *)

Chars == {"a"}
Counts == 1..MaxCount
IndentLevels == 0..MaxIndentLevel

InitTexts ==
    { <<>>,
      <<"a">>,
      <<"a", "\n", "b", "\n">>,
      <<" ", "a", "\n", "\n">> }

\* a cursor at the start of the text, or one at the start of every line
\* (extend over the lines, split_selection_on_newline, move_line_start)
line_starts(t) ==
    Selection_new([l \in 1..len_lines(t) |->
                      Range(line_to_char(t, l - 1), line_to_char(t, l - 1))], 0)

InitSelections(t) == {Selection_point(0), line_starts(t)}

\* the register is process-wide: it may hold what another view yanked
InitRegisters == { <<>>, << <<"b">> >>, << <<"b", "\n">>, <<"c">> >> }

\* entry: the command that entered Insert mode; text: the text the session
\* started from; edits: the text-changing edits applied in it so far
NoSession == [entry |-> "none", text |-> <<>>, edits |-> 0]

changed(v, nv) == IF nv.text # v.text THEN 1 ELSE 0

\* the session after a command took the view from v to nv
session_after(name, v, nv, ses) ==
    IF v.mode = "Insert" /\ nv.mode = "Insert"
    THEN [ses EXCEPT !.edits = @ + changed(v, nv)]
    ELSE IF nv.mode = "Insert"
    THEN IF name = "open_below"
         THEN [entry |-> name, text |-> v.text, edits |-> changed(v, nv)]
         ELSE [entry |-> name, text |-> nv.text, edits |-> 0]
    ELSE IF v.mode = "Insert" THEN ses
    ELSE NoSession

\* The round trip of N committed edits, N undos and N redos: orig is the
\* text the edits started from, post the text they ended at, n the revisions
\* they committed, k the undos (redos) still to come.
NoTrip == [phase |-> "off", orig |-> <<>>, post |-> <<>>, n |-> 0, k |-> 0]

TripCommands ==
    {"delete_selection", "paste", "indent", "unindent",
     "insert_mode", "append_mode", "prepend_to_line", "append_to_line", "open_below",
     "insert_char", "insert_tab", "insert_newline",
     "delete_char_backward", "delete_char_forward", "normal_mode"}

trip_allows(name) ==
    CASE trip.phase = "off"  -> TRUE
      [] trip.phase = "edit" -> name \in TripCommands \/ (name = "undo" /\ trip.n >= 1)
      [] trip.phase = "undo" -> IF trip.k > 0 THEN name = "undo" ELSE name = "redo"
      [] trip.phase = "redo" -> name = "redo" /\ trip.k > 0

trip_after(name, v, nv) ==
    CASE trip.phase = "off"  -> trip
      [] trip.phase = "edit" ->
            IF name = "undo"
            THEN [trip EXCEPT !.phase = "undo", !.post = v.text, !.k = trip.n - 1]
            ELSE [trip EXCEPT !.n = @ + (nv.history.cursor - v.history.cursor)]
      [] trip.phase = "undo" ->
            IF name = "undo" THEN [trip EXCEPT !.k = @ - 1]
            ELSE [trip EXCEPT !.phase = "redo", !.k = trip.n - 1]
      [] trip.phase = "redo" -> [trip EXCEPT !.k = @ - 1]

\* whether an undo or redo has taken effect with no change of text since
undone_after(name, v, nv, u) ==
    IF name \in {"undo", "redo"} /\ nv # v THEN TRUE
    ELSE IF nv.text # v.text THEN FALSE
    ELSE u

\* the undos and redos of a round trip are counted by the trip itself
unbudgeted(name) == trip.phase # "off" /\ name \in {"undo", "redo"}

Init ==
    /\ \E t \in InitTexts : \E sel \in InitSelections(t) : view = View_new(t, sel)
    /\ register \in InitRegisters
    /\ cmd = "open"
    /\ session = NoSession
    /\ trip = NoTrip
    /\ undone = FALSE
    /\ budget = MaxSteps

\* a command runs to completion; a failed one ends the process
Do(name, nv) ==
    /\ budget > 0 \/ unbudgeted(name)
    /\ trip_allows(name)
    /\ ~view.panicked
    /\ Len(nv.text) <= MaxLen
    /\ view' = nv
    /\ cmd' = name
    /\ session' = session_after(name, view, nv, session)
    /\ trip' = trip_after(name, view, nv)
    /\ undone' = undone_after(name, view, nv, undone)
    /\ budget' = IF unbudgeted(name) THEN budget ELSE budget - 1

InNormal == view.mode = "Normal"
InInsert == view.mode = "Insert"
InGoto == view.mode = "Goto"

MoveCharLeft == InNormal /\ \E n \in Counts : Do("move", move_char_left(view, n)) /\ UNCHANGED register
MoveCharRight == InNormal /\ \E n \in Counts : Do("move", move_char_right(view, n)) /\ UNCHANGED register
MoveLineUp == InNormal /\ \E n \in Counts : Do("move", move_line_up(view, n)) /\ UNCHANGED register
MoveLineDown == InNormal /\ \E n \in Counts : Do("move", move_line_down(view, n)) /\ UNCHANGED register
MoveLineEnd == InNormal /\ Do("move", move_line_end(view)) /\ UNCHANGED register
MoveLineStart == InNormal /\ Do("move", move_line_start(view)) /\ UNCHANGED register
MoveNextWordStart == InNormal /\ \E n \in Counts : Do("move", move_next_word_start(view, n)) /\ UNCHANGED register
MovePrevWordStart == InNormal /\ \E n \in Counts : Do("move", move_prev_word_start(view, n)) /\ UNCHANGED register
MoveNextWordEnd == InNormal /\ \E n \in Counts : Do("move", move_next_word_end(view, n)) /\ UNCHANGED register
MoveFileStart == InGoto /\ Do("move_file_start", move_file_start(view)) /\ UNCHANGED register
MoveFileEnd == InGoto /\ Do("move_file_end", move_file_end(view)) /\ UNCHANGED register
PageUp == InNormal /\ Do("move", page_up(view)) /\ UNCHANGED register
PageDown == InNormal /\ Do("move", page_down(view)) /\ UNCHANGED register
HalfPageUp == InNormal /\ Do("move", half_page_up(view)) /\ UNCHANGED register
HalfPageDown == InNormal /\ Do("move", half_page_down(view)) /\ UNCHANGED register
ExtendCharLeft == InNormal /\ \E n \in Counts : Do("move", extend_char_left(view, n)) /\ UNCHANGED register
ExtendCharRight == InNormal /\ \E n \in Counts : Do("move", extend_char_right(view, n)) /\ UNCHANGED register
ExtendLineUp == InNormal /\ \E n \in Counts : Do("move", extend_line_up(view, n)) /\ UNCHANGED register
ExtendLineDown == InNormal /\ \E n \in Counts : Do("move", extend_line_down(view, n)) /\ UNCHANGED register
SplitSelectionOnNewline == InNormal /\ Do("move", split_selection_on_newline(view)) /\ UNCHANGED register
SelectLine == InNormal /\ Do("move", select_line(view)) /\ UNCHANGED register
DeleteSelection == InNormal /\ Do("delete_selection", delete_selection(view)) /\ UNCHANGED register
ChangeSelection == InNormal /\ Do("change_selection", change_selection(view)) /\ UNCHANGED register
CollapseSelection == InNormal /\ Do("move", collapse_selection(view)) /\ UNCHANGED register
FlipSelections == InNormal /\ Do("move", flip_selections(view)) /\ UNCHANGED register
InsertMode == InNormal /\ Do("insert_mode", insert_mode(view)) /\ UNCHANGED register
AppendMode == InNormal /\ Do("append_mode", append_mode(view)) /\ UNCHANGED register
PrependToLine == InNormal /\ Do("prepend_to_line", prepend_to_line(view)) /\ UNCHANGED register
AppendToLine == InNormal /\ Do("append_to_line", append_to_line(view)) /\ UNCHANGED register
OpenBelow == InNormal /\ Do("open_below", open_below(view)) /\ UNCHANGED register
NormalMode == Do("normal_mode", normal_mode(view)) /\ UNCHANGED register
GotoMode == InNormal /\ Do("goto_mode", goto_mode(view)) /\ UNCHANGED register
InsertChar == InInsert /\ \E c \in Chars : Do("insert_char", insert_char(view, c)) /\ UNCHANGED register
InsertTab == InInsert /\ Do("insert_tab", insert_tab(view)) /\ UNCHANGED register
InsertNewline == InInsert /\ \E l \in IndentLevels : Do("insert_newline", insert_newline(view, l)) /\ UNCHANGED register
DeleteCharBackward == InInsert /\ \E n \in Counts : Do("delete_char_backward", delete_char_backward(view, n)) /\ UNCHANGED register
DeleteCharForward == InInsert /\ \E n \in Counts : Do("delete_char_forward", delete_char_forward(view, n)) /\ UNCHANGED register
Undo == InNormal /\ Do("undo", undo(view)) /\ UNCHANGED register
Redo == InNormal /\ Do("redo", redo(view)) /\ UNCHANGED register
Yank == InNormal /\ Do("yank", view) /\ register' = yank(view)
Paste == InNormal /\ Do("paste", paste(view, register)) /\ UNCHANGED register
Indent == InNormal /\ Do("indent", indent(view)) /\ UNCHANGED register
Unindent == InNormal /\ Do("unindent", unindent(view)) /\ UNCHANGED register

NormalMovement ==
    \/ MoveCharLeft \/ MoveCharRight \/ MoveLineUp \/ MoveLineDown
    \/ MoveLineEnd \/ MoveLineStart
    \/ MoveNextWordStart \/ MovePrevWordStart \/ MoveNextWordEnd
    \/ PageUp \/ PageDown \/ HalfPageUp \/ HalfPageDown
    \/ ExtendCharLeft \/ ExtendCharRight \/ ExtendLineUp \/ ExtendLineDown
    \/ SplitSelectionOnNewline \/ SelectLine \/ CollapseSelection \/ FlipSelections

Movement == NormalMovement \/ MoveFileStart \/ MoveFileEnd

EnterInsert == InsertMode \/ AppendMode \/ PrependToLine \/ AppendToLine \/ OpenBelow

ModeChange == EnterInsert \/ ChangeSelection \/ NormalMode \/ GotoMode

InsertEdit ==
    \/ InsertChar \/ InsertTab \/ InsertNewline
    \/ DeleteCharBackward \/ DeleteCharForward

NormalEdit ==
    \/ DeleteSelection \/ Undo \/ Redo \/ Yank \/ Paste \/ Indent \/ Unindent

Next == Movement \/ ModeChange \/ InsertEdit \/ NormalEdit

Spec == Init /\ [][Next]_vars

\* Insert sessions only, followed two commands further than Spec goes
InitSession ==
    /\ \E t \in InitTexts : \E sel \in InitSelections(t) : view = View_new(t, sel)
    /\ register = <<>>
    /\ cmd = "open"
    /\ session = NoSession
    /\ trip = NoTrip
    /\ undone = FALSE
    /\ budget = MaxSteps + 2

NextSession == ModeChange \/ InsertEdit

SpecSession == InitSession /\ [][NextSession]_vars

\* Round trips: one command sets the scene, then committed edits, then as
\* many undos, then as many redos
InitTrip ==
    /\ \E t \in InitTexts : \E sel \in InitSelections(t) : view = View_new(t, sel)
    /\ register \in InitRegisters
    /\ cmd = "open"
    /\ session = NoSession
    /\ trip = NoTrip
    /\ undone = FALSE
    /\ budget = 1

BeginTrip ==
    /\ trip.phase = "off"
    /\ InNormal /\ ~view.panicked /\ is_empty(view.changes)
    /\ trip' = [phase |-> "edit", orig |-> view.text, post |-> <<>>, n |-> 0, k |-> 0]
    /\ budget' = MaxSteps
    /\ UNCHANGED <<view, register, cmd, session, undone>>

NextTrip ==
    \/ BeginTrip
    \/ NormalMovement
    \/ EnterInsert \/ NormalMode \/ InsertEdit
    \/ DeleteSelection \/ Paste \/ Indent \/ Unindent \/ Yank \/ Undo \/ Redo

SpecTrip == InitTrip /\ [][NextTrip]_vars

\* Scrolling only
InitScroll ==
    /\ \E t \in InitTexts : \E sel \in InitSelections(t) : view = View_new(t, sel)
    /\ register = <<>>
    /\ cmd = "open"
    /\ session = NoSession
    /\ trip = NoTrip
    /\ undone = FALSE
    /\ budget = MaxSteps + 2

NextScroll == PageUp \/ PageDown \/ HalfPageUp \/ HalfPageDown

SpecScroll == InitScroll /\ [][NextScroll]_vars

-----------------------------------------------------------------------------
(* Properties *)

\* h2 is h with exactly one revision committed at its cursor
commits_one(h, h2) ==
    /\ h2.cursor = h.cursor + 1
    /\ Len(h2.revisions) = h2.cursor
    /\ SubSeq(h2.revisions, 1, h.cursor) = SubSeq(h.revisions, 1, h.cursor)

exits_session == view.mode = "Insert" /\ cmd' = "normal_mode"

\* C1 as stated: History gains no revision while the mode is Insert, and
\* normal_mode commits exactly one revision if at least one text-changing
\* edit was applied in the session and no revision if none was.
C1_AsStated ==
    [][ /\ (view.mode = "Insert" /\ view'.mode = "Insert" => view'.history = view.history)
        /\ (exits_session =>
               IF session.edits > 0 THEN commits_one(view.history, view'.history)
               ELSE view'.history = view.history) ]_vars

\* C1 amended: History gains no revision while the mode is Insert, and
\* normal_mode commits exactly one revision if the pending changeset the
\* session composed is not empty, which it is whenever the text differs
\* from the text the session started from, and no revision if it is empty,
\* which it is whenever no text-changing edit was applied.
C1_SessionBatching ==
    [][ /\ (view.mode = "Insert" /\ view'.mode = "Insert" => view'.history = view.history)
        /\ (exits_session =>
               /\ IF is_empty(view.changes) THEN view'.history = view.history
                  ELSE commits_one(view.history, view'.history)
               /\ (view.text # session.text => ~is_empty(view.changes))
               /\ (session.edits = 0 => is_empty(view.changes))) ]_vars

\* a session of two or more edits has been left and committed one revision
C1_Witness ==
    /\ cmd = "normal_mode"
    /\ session.edits >= 2
    /\ view.history.cursor = 1 /\ Len(view.history.revisions) = 1
    /\ view.text # session.text

\* the selection with each range's head moved back one grapheme boundary
heads_moved_back(v) ==
    LET F(r) == Range(r.anchor, prev_grapheme_boundary(v.text, r.head))
    IN  transform(v.selection, F)

\* C8 as stated: normal_mode moves each range's head back one grapheme
\* boundary iff the session was entered via an append-style command
\* (append_mode, append_to_line), and leaves restore_cursor false.
C8_AsStated ==
    [][ exits_session =>
          /\ view'.restore_cursor = FALSE
          /\ view'.selection =
                 IF session.entry \in {"append_mode", "append_to_line"}
                 THEN heads_moved_back(view) ELSE view.selection ]_vars

\* C8 amended: normal_mode moves each range's head back one grapheme
\* boundary iff the session was entered via append_mode; a session entered
\* via append_to_line, like one entered via insert_mode, prepend_to_line,
\* open_below or change_selection, leaves the selection untouched on exit;
\* afterwards restore_cursor is false.
C8_AppendExitShift ==
    [][ exits_session =>
          /\ view'.restore_cursor = FALSE
          /\ view'.selection =
                 IF session.entry = "append_mode"
                 THEN heads_moved_back(view) ELSE view.selection ]_vars

\* an append_mode session with an edit in it has been left
C8_Witness ==
    /\ cmd = "normal_mode"
    /\ session.entry = "append_mode"
    /\ session.edits >= 1
    /\ ~view.restore_cursor
    /\ \E i \in 1..Len(view.selection.ranges) : view.selection.ranges[i].head > 0

InsertFamily ==
    {"insert_mode", "append_mode", "prepend_to_line", "append_to_line",
     "open_below", "change_selection"}

stated_edge ==
    \/ view.mode = "Normal" /\ view'.mode = "Insert" /\ cmd' \in InsertFamily
    \/ view.mode = "Insert" /\ view'.mode = "Normal" /\ cmd' = "normal_mode"
    \/ view.mode = "Normal" /\ view'.mode = "Goto" /\ cmd' = "goto_mode"

goto_exit_edge ==
    /\ view.mode = "Goto" /\ view'.mode = "Normal"
    /\ cmd' \in {"move_file_start", "move_file_end", "normal_mode"}

\* C4 as stated: the initial mode is Normal and the only mode changes are
\* Normal -> Insert (insert family), Insert -> Normal (normal_mode) and
\* Normal -> Goto (goto_mode).
C4_AsStated ==
    view.mode = "Normal" /\ [][view'.mode # view.mode => stated_edge]_vars

\* C4 amended: the initial mode is Normal and the only mode changes are
\* Normal -> Insert (insert family), Insert -> Normal (normal_mode),
\* Normal -> Goto (goto_mode) and Goto -> Normal (move_file_start,
\* move_file_end, normal_mode).
C4_ModeTransitions ==
    view.mode = "Normal"
        /\ [][view'.mode # view.mode => stated_edge \/ goto_exit_edge]_vars

\* a Goto-mode jump has brought the mode back to Normal
C4_Witness == cmd = "move_file_end" /\ view.mode = "Normal" /\ ~view.panicked

\* C5: every command that changes the text leaves the version strictly
\* greater than before, and the version never decreases.
C5_VersionIncreases ==
    [][ /\ view'.version >= view.version
        /\ (view'.text # view.text => view'.version > view.version) ]_vars

\* C7: the selection is non-empty, its ranges ascend without overlapping,
\* the primary index is valid, and every anchor and head lies in [0, len].
C7_SelectionInvariant ==
    LET rs == view.selection.ranges IN
    /\ Len(rs) >= 1
    /\ view.selection.primary \in 0..(Len(rs) - 1)
    /\ \A i \in 1..Len(rs) :
          rs[i].anchor \in 0..Len(view.text) /\ rs[i].head \in 0..Len(view.text)
    /\ \A i \in 1..(Len(rs) - 1) :
          from(rs[i]) <= from(rs[i + 1]) /\ to(rs[i]) <= from(rs[i + 1])

\* several ranges survive an edit that shortened the text
C7_Witness ==
    /\ cmd = "delete_selection" /\ ~view.panicked
    /\ Len(view.selection.ranges) >= 2
    /\ view.history.cursor = 1

nothing_to_do ==
    \/ cmd' = "undo" /\ ~can_undo(view.history)
    \/ cmd' = "redo" /\ ~can_redo(view.history)
    \/ cmd' = "paste" /\ register = <<>>

\* C10: undo at the start of History, redo with no revision ahead and paste
\* from an empty register leave text, selection, mode, version, pending
\* changeset and History unchanged.
C10_AbsenceIsNoOp ==
    [][ nothing_to_do =>
          /\ view'.text = view.text /\ view'.selection = view.selection
          /\ view'.mode = view.mode /\ view'.version = view.version
          /\ view'.changes = view.changes /\ view'.history = view.history
          /\ register' = register ]_vars

\* undo has run on a document that never committed an edit
C10_Witness ==
    /\ cmd = "undo" /\ ~view.panicked
    /\ view.version = 0 /\ view.history = History_new
    /\ view.text # <<>>

\* C2: N committed edits made from a state with an empty pending changeset,
\* then N undos, restore the original text; N redos then restore the text
\* the edits had produced.
C2_UndoRedoRoundTrip ==
    trip.phase \in {"undo", "redo"} =>
        /\ ~view.panicked
        /\ (trip.phase = "undo" /\ trip.k = 0 => view.text = trip.orig)
        /\ (trip.phase = "redo" /\ trip.k = 0 => view.text = trip.post)

\* two committed edits have been undone and redone
C2_Witness ==
    /\ trip.phase = "redo" /\ trip.k = 0 /\ trip.n = 2
    /\ trip.orig # trip.post
    /\ view.text = trip.post /\ view.history.cursor >= 2

\* C3: a committed delete_selection followed by undo leaves the selection
\* that was current immediately before the delete_selection.
C3_UndoRestoresSelection ==
    (InNormal /\ ~view.panicked /\ is_empty(view.changes)) =>
        LET d == delete_selection(view)
        IN  (~d.panicked /\ can_undo(d.history) /\ d.text # view.text) =>
                undo(d).selection = view.selection

\* C6: the edits each editing command builds from the current selection are
\* in ascending order of from and pairwise non-overlapping.
C6_EditsSortedDisjoint ==
    ~view.panicked =>
        /\ InNormal =>
              /\ SortedDisjoint(delete_selection_edits(view), 0)
              /\ register # <<>> => SortedDisjoint(paste_edits(view, register), 0)
              /\ SortedDisjoint(indent_edits(view), 0)
              /\ SortedDisjoint(unindent_edits(view), 0)
              /\ SortedDisjoint(open_below_edits(view), 0)
        /\ InInsert =>
              \A count \in Counts :
                  /\ SortedDisjoint(delete_char_backward_edits(view, count), 0)
                  /\ SortedDisjoint(delete_char_forward_edits(view, count), 0)

\* C9: every edit delete_selection, paste, delete_char_backward and
\* delete_char_forward build satisfies 0 <= from <= to <= len(text).
C9_EditsInBounds ==
    LET within(edits) ==
            \A i \in 1..Len(edits) :
                /\ 0 <= edits[i].from
                /\ edits[i].from <= edits[i].to
                /\ edits[i].to <= Len(view.text)
    IN  ~view.panicked =>
            /\ InNormal =>
                  /\ within(delete_selection_edits(view))
                  /\ register # <<>> => within(paste_edits(view, register))
            /\ InInsert =>
                  \A count \in Counts :
                      /\ within(delete_char_backward_edits(view, count))
                      /\ within(delete_char_forward_edits(view, count))

\* the cursors of sel are zero-width and stand at strictly ascending positions
zero_width_cursors(sel) ==
    /\ \A i \in 1..Len(sel.ranges) : sel.ranges[i].anchor = sel.ranges[i].head
    /\ \A i \in 1..(Len(sel.ranges) - 1) : sel.ranges[i].head < sel.ranges[i + 1].head

\* t with value put in at each of the positions ps (ascending), last first
RECURSIVE inserted_at(_, _, _)
inserted_at(t, ps, values) ==
    IF ps = <<>> THEN t
    ELSE LET p == ps[Len(ps)]
             u == SubSeq(t, 1, p) \o values[Len(ps)] \o SubSeq(t, p + 1, Len(t))
         IN  inserted_at(u, SubSeq(ps, 1, Len(ps) - 1), values)

\* C11: insert_char(c) over n zero-width cursors p1 < ... < pn yields the
\* text with c inserted at every pi and n zero-width cursors, the i-th at
\* pi + i.
C11_MultiCursorInsert ==
    [][ (cmd' = "insert_char" /\ zero_width_cursors(view.selection)) =>
          LET rs == view.selection.ranges
              ps == [i \in 1..Len(rs) |-> rs[i].head]
          IN  /\ ~view'.panicked
              /\ \E c \in Chars :
                    view'.text = inserted_at(view.text, ps, [i \in 1..Len(rs) |-> <<c>>])
              /\ view'.selection.ranges =
                    [i \in 1..Len(rs) |-> Range(ps[i] + i, ps[i] + i)] ]_vars

\* a character has been typed at several cursors at once
C11_Witness ==
    /\ cmd = "insert_char" /\ ~view.panicked
    /\ Len(view.selection.ranges) >= 2
    /\ zero_width_cursors(view.selection)
    /\ \A i \in 1..Len(view.selection.ranges) :
          view.selection.ranges[i].head >= i
              /\ view.text[view.selection.ranges[i].head] \in Chars

\* where paste is to put the value of the range r of the view v
paste_position(v, r, linewise) ==
    IF linewise THEN line_to_char(v.text, char_to_line(v.text, r.head) + 1)
    ELSE r.head + 1

\* C12: with k >= 1 register values the i-th range (0-based) receives value
\* min(i, k-1); if any value ends with a newline every value goes to the
\* start of the line following its range's head, otherwise to head + 1; the
\* paste is committed to History as one revision.
C12_PastePlacement ==
    [][ (cmd' = "paste" /\ register # <<>>) =>
          LET rs == view.selection.ranges
              k  == Len(register)
              linewise == \E j \in 1..k :
                              register[j] # <<>> /\ register[j][Len(register[j])] = "\n"
              ps == [i \in 1..Len(rs) |-> paste_position(view, rs[i], linewise)]
              values == [i \in 1..Len(rs) |-> register[Min(i - 1, k - 1) + 1]]
          IN  /\ ~view'.panicked
              /\ view'.text = inserted_at(view.text, ps, values)
              /\ commits_one(view.history, view'.history) ]_vars

\* the lines the heads of the selection stand on, ascending
touched_lines(v) ==
    Ascending({char_to_line(v.text, v.selection.ranges[i].head) :
                  i \in 1..Len(v.selection.ranges)})

\* the number of characters of line l in front of its line break
content_len(t, l) ==
    LET start == line_to_char(t, l)
        next  == line_to_char(t, l + 1)
    IN  IF next > start /\ t[next] = "\n" THEN next - start - 1 ELSE next - start

\* C13: move_line_start and move_line_end produce one zero-width range per
\* distinct line touched by the selection, in ascending line order, each on
\* the line it was produced for: at the line's first character for
\* move_line_start, at its last character before the line break for
\* move_line_end, empty lines included.
C13_LineFanOut ==
    (InNormal /\ ~view.panicked) =>
        LET lines == touched_lines(view)
            s == move_line_start(view).selection.ranges
            e == move_line_end(view).selection.ranges
        IN  /\ Len(s) = Len(lines)
            /\ Len(e) = Len(lines)
            /\ \A i \in 1..Len(lines) :
                  /\ s[i] = Range(line_to_char(view.text, lines[i]),
                                  line_to_char(view.text, lines[i]))
                  /\ char_to_line(view.text, s[i].head) = lines[i]
                  /\ e[i].anchor = e[i].head
                  /\ char_to_line(view.text, e[i].head) = lines[i]
                  /\ content_len(view.text, lines[i]) > 0 =>
                        e[i].head = line_to_char(view.text, lines[i])
                                        + content_len(view.text, lines[i]) - 1

\* the number of spaces the text carries from position pos (0-based) on
RECURSIVE leading_spaces(_, _)
leading_spaces(t, pos) ==
    IF pos < Len(t) /\ t[pos + 1] = " " THEN 1 + leading_spaces(t, pos + 1) ELSE 0

\* C14: each edit of unindent deletes a prefix of a touched line made of
\* space and tab characters only, at most TAB_WIDTH of them, never a
\* character of another line; a line starting with fewer than TAB_WIDTH
\* spaces loses exactly those spaces.
C14_UnindentLeadingWhitespace ==
    (InNormal /\ ~view.panicked) =>
        LET edits == unindent_edits(view)
            t == view.text
        IN  /\ \A i \in 1..Len(edits) :
                  /\ edits[i].from = line_to_char(t, char_to_line(t, edits[i].from))
                  /\ edits[i].text = <<>>
                  /\ edits[i].from < edits[i].to
                  /\ edits[i].to <= Len(t)
                  /\ edits[i].to - edits[i].from <= TAB_WIDTH
                  /\ \A j \in (edits[i].from + 1)..edits[i].to : t[j] \in {" ", "\t"}
            /\ \A l \in 0..(len_lines(t) - 1) :
                  LET start == line_to_char(t, l)
                      k == leading_spaces(t, start)
                  IN  (/\ \E i \in 1..Len(view.selection.ranges) :
                             /\ char_to_line(t, from(view.selection.ranges[i])) <= l
                             /\ l <= char_to_line(t, to(view.selection.ranges[i]))
                       /\ 0 < k /\ k < TAB_WIDTH
                       /\ (start + k < Len(t) => t[start + k + 1] # "\t"))
                      => \E i \in 1..Len(edits) : edits[i] = Edit(start, start + k, <<>>)

\* C15: the pending changeset applied to old_state's text yields the current
\* text; right after append_changes_to_history commits, the pending
\* changeset is the identity over the current text, old_state is the current
\* state, and the committed transaction maps the previous old_state's text
\* to the current text.
C15_PendingConsistency ==
    /\ applies_to(view.changes, view.old_state.text)
    /\ apply_changes(view.changes, view.old_state.text) = view.text
    /\ ~is_empty(view.changes) =>
          LET w  == append_changes_to_history(view)
              tx == w.history.revisions[w.history.cursor].transaction
          IN  /\ commits_one(view.history, w.history)
              /\ w.changes = ChangeSet_new(w.text)
              /\ w.old_state = State(w.text, w.selection)
              /\ w.text = view.text
              /\ applies_to(tx.changes, view.old_state.text)
              /\ apply_changes(tx.changes, view.old_state.text) = w.text

\* an undo has left its revert pending over the state of the last commit
C15_Witness ==
    /\ cmd = "undo" /\ ~view.panicked
    /\ ~is_empty(view.changes)
    /\ view.old_state.text # view.text
    /\ Len(view.history.revisions) >= 1

\* the step drops a revision that lay ahead of History's cursor
redo_tail_discarded ==
    /\ can_redo(view.history)
    /\ \/ Len(view'.history.revisions) < Len(view.history.revisions)
       \/ SubSeq(view'.history.revisions, 1, Len(view.history.revisions))
              # view.history.revisions

\* C16: after an undo or redo, commands that do not change the text
\* (movement, entering Insert mode, normal_mode with nothing typed) leave
\* History's revisions and cursor unchanged; the redo tail is discarded only
\* when a new text-changing edit is committed.
C16_UndoStagesNoEdit ==
    [][ /\ (undone /\ cmd' \notin {"undo", "redo"} /\ view'.text = view.text)
              => view'.history = view.history
        /\ (undone /\ view'.text = view.text) => ~redo_tail_discarded ]_vars

\* C17: movement, selection-shaping and scrolling commands leave the text,
\* the pending changeset, old_state, History and the version unchanged.
C17_MovementEditFree ==
    [][ cmd' \in {"move", "move_file_start", "move_file_end"} =>
          /\ view'.text = view.text
          /\ view'.changes = view.changes
          /\ view'.old_state = view.old_state
          /\ view'.history = view.history
          /\ view'.version = view.version
          /\ view'.restore_cursor = view.restore_cursor
          /\ cmd' = "move" => view'.mode = view.mode ]_vars

\* a movement has run while an undo's revert was pending
C17_Witness ==
    /\ cmd = "move" /\ ~view.panicked
    /\ ~is_empty(view.changes)
    /\ view.history.cursor = 0 /\ Len(view.history.revisions) = 1
    /\ view.selection # view.old_state.selection

\* C18: for a selection touching m distinct lines, open_below enters Insert
\* mode, inserts one newline after each of those lines and leaves m
\* zero-width cursors, each in the post-edit text at the start of the new
\* empty line opened below its own original line.
C18_OpenBelowCursors ==
    [][ cmd' = "open_below" =>
          LET lines == touched_lines(view)
              m  == Len(lines)
              ps == [i \in 1..m |-> line_to_char(view.text, lines[i] + 1)]
              rs == view'.selection.ranges
          IN  /\ ~view'.panicked
              /\ view'.mode = "Insert"
              /\ view'.text = inserted_at(view.text, ps, [i \in 1..m |-> <<"\n">>])
              /\ Len(rs) = m
              /\ \A i \in 1..m :
                    /\ rs[i].anchor = rs[i].head
                    /\ rs[i].head = ps[i] + (i - 1)
                    /\ view'.text[rs[i].head + 1] = "\n" ]_vars

\* C19: after any sequence of page_up, page_down, half_page_up and
\* half_page_down, first_line is a line index of the document, and a
\* relocated cursor stands on a line of the document.
C19_ViewportInside ==
    /\ ~view.panicked
    /\ view.first_line < len_lines(view.text)
    /\ cursor(view.selection) <= Len(view.text)

=============================================================================
